---- MODULE Spec2Model ----
(***************************************************************************)
(* AuthaCAD_V8_OK.py: a selection of drafting entities (closed polylines,  *)
(* survey points, text labels) is turned into one boundary description per *)
(* polyline: a header, one sentence and one table row per edge, a closing  *)
(* statement.                                                              *)
(*                                                                         *)
(* Lengths are integers in units of 0.0001 m, so that a coordinate rounded *)
(* to 3 decimals is a multiple of 10.  Areas are in units of 0.001 m2, an  *)
(* area rounded to 2 decimals is a multiple of 10.  A text is a sequence   *)
(* of tokens (markers, words, digit runs, control sequences); the empty    *)
(* Python string is the empty sequence.  Floating-point arithmetic is      *)
(* modelled by exact rational arithmetic.                                  *)
(***************************************************************************)
EXTENDS Integers, Sequences, FiniteSets, TLC

VARIABLES
    selection_set,  \* the entities of the selection, in provider order
    pc,             \* position of the script
    ent,            \* index of the script's loop over selection_set (line 225)
    i,              \* edge index of generate_text_from_polyline (line 161)
    header_text,    \* header of the polyline being narrated
    descriptions,   \* sentences of the polyline being narrated
    out,            \* what was printed so far: table rows, documents, messages
    arg,            \* input of the function under test (function specifications)
    res             \* its result

vars == <<selection_set, pc, ent, i, header_text, descriptions, out, arg, res>>

-----------------------------------------------------------------------------
(* Arithmetic helpers *)

Abs(x) == IF x < 0 THEN -x ELSE x

Min(a, b) == IF a < b THEN a ELSE b

Max(a, b) == IF a > b THEN a ELSE b

RECURSIVE Gcd(_, _)
Gcd(a, b) == IF b = 0 THEN a ELSE Gcd(b, a % b)

\* round(x, 3) of a coordinate, round(x, 2) of an area: to the nearest
\* multiple of 10 units (an exact half goes to the even multiple).
RoundTo10(c) ==
    LET r == c % 10
        lo == c - r
    IN  IF r < 5 THEN lo
        ELSE IF r > 5 THEN lo + 10
        ELSE IF (lo \div 10) % 2 = 0 THEN lo ELSE lo + 10

\* 1e-9 m in units of 0.0001 m is 1 / FloatTolDen
FloatTolDen == 100000

are_floats_equal(f1, f2) == Abs(f1 - f2) * FloatTolDen < 1

\* is_point_close with <= for <
is_point_close_inclusive(point1, point2, tolerance) ==
    (point1[1] - point2[1]) * (point1[1] - point2[1])
      + (point1[2] - point2[2]) * (point1[2] - point2[2]) <= tolerance * tolerance

\* sqrt(dx^2 + dy^2) < tolerance, decided on the squares
is_point_close(point1, point2, tolerance) ==
    (point1[1] - point2[1]) * (point1[1] - point2[1])
      + (point1[2] - point2[2]) * (point1[2] - point2[2]) < tolerance * tolerance

-----------------------------------------------------------------------------
(* Entities as the host application exposes them *)

NoText == <<>>

Entity(name, handle, coords, area, e, n, elev, num, ins, txt, unreadable) ==
    [EntityName |-> name, Handle |-> handle, Coordinates |-> coords,
     Area |-> area, Easting |-> e, Northing |-> n, Elevation |-> elev,
     Number |-> num, InsertionPoint |-> ins, TextString |-> txt,
     Unreadable |-> unreadable]

Polyline(handle, coords, area) ==
    Entity("AcDbPolyline", handle, coords, area, 0, 0, "", "", <<0, 0>>, NoText, {})

CogoPoint(handle, e, n, elev, num, unreadable) ==
    Entity("AeccDbCogoPoint", handle, <<>>, 0, e, n, elev, num, <<0, 0>>, NoText, unreadable)

Text(handle, name, ins, txt) ==
    Entity(name, handle, <<>>, 0, 0, 0, "", "", ins, txt, {})

\* the properties extract_coordinates reads of an entity of each supported kind
PropertiesRead(name) ==
    CASE name = "AcDbPolyline" -> {"Coordinates"}
      [] name = "AeccDbCogoPoint" ->
            {"Easting", "Northing", "Elevation", "RawDescription", "Number"}
      [] name \in {"AcDbText", "AcDbMText"} -> {"InsertionPoint", "TextString"}
      [] OTHER -> {}

\* [(coords[i], coords[i+1]) for i in range(0, len(coords), 2)]
Pairs(flat) == [k \in 1..(Len(flat) \div 2) |-> <<flat[2 * k - 1], flat[2 * k]>>]

RoundedPairs(flat) ==
    [k \in 1..(Len(flat) \div 2) |->
        <<RoundTo10(flat[2 * k - 1]), RoundTo10(flat[2 * k])>>]

\* Type "None" is the None result (unsupported entity), Type "raise" the
\* exception re-raised at line 36.  Only Type and Coordinates are used by
\* the callers.
extract_coordinates(entity) ==
    IF PropertiesRead(entity.EntityName) \cap entity.Unreadable # {}
    THEN [Type |-> "raise", Coordinates |-> <<>>]
    ELSE CASE entity.EntityName = "AcDbPolyline" ->
                [Type |-> "Polyline", Coordinates |-> RoundedPairs(entity.Coordinates)]
           [] entity.EntityName = "AeccDbCogoPoint" ->
                [Type |-> "CogoPoint", Coordinates |-> <<>>]
           [] entity.EntityName \in {"AcDbText", "AcDbMText"} ->
                [Type |-> "Text", Coordinates |-> <<>>]
           [] OTHER -> [Type |-> "None", Coordinates |-> <<>>]

-----------------------------------------------------------------------------
(* Point-in-Polygon Tester *)

\* x <= xinters, xinters = (y - p1y) * (p2x - p1x) / (p2y - p1y) + p1x,
\* for p1y # p2y, without the division
LeftOfIntersection(x, y, p1, p2) ==
    IF p2[2] > p1[2]
    THEN (x - p1[1]) * (p2[2] - p1[2]) <= (y - p1[2]) * (p2[1] - p1[1])
    ELSE (x - p1[1]) * (p2[2] - p1[2]) >= (y - p1[2]) * (p2[1] - p1[1])

\* EdgeToggles with y >= min for y > min
EdgeTogglesClosed(x, y, p1, p2) ==
    /\ y >= Min(p1[2], p2[2])
    /\ y <= Max(p1[2], p2[2])
    /\ x <= Max(p1[1], p2[1])
    /\ (p1[1] = p2[1] \/ (p1[2] # p2[2] /\ LeftOfIntersection(x, y, p1, p2)))

\* the body of the loop at lines 47-53: does the edge p1-p2 toggle `inside`
EdgeToggles(x, y, p1, p2) ==
    /\ y > Min(p1[2], p2[2])
    /\ y <= Max(p1[2], p2[2])
    /\ x <= Max(p1[1], p2[1])
    /\ (p1[1] = p2[1] \/ LeftOfIntersection(x, y, p1, p2))

RECURSIVE PipLoop(_, _, _, _, _, _)
PipLoop(x, y, polygon, k, p1, inside) ==
    LET n == Len(polygon) IN
    IF k > n THEN inside
    ELSE LET p2 == polygon[(k % n) + 1]
         IN  PipLoop(x, y, polygon, k + 1, p2,
                     IF EdgeToggles(x, y, p1, p2) THEN ~inside ELSE inside)

is_point_in_polygon(point, polygon) ==
    LET pairs == Pairs(polygon)
    IN  PipLoop(point[1], point[2], pairs, 0, pairs[1], FALSE)

-----------------------------------------------------------------------------
(* Label Associator *)

\* (sum(x), sum(y), number of vertices): the centre is (sx / n, sy / n)
get_center(vertices) ==
    LET pairs == Pairs(vertices)
        SumTo[k \in 0..Len(pairs)] ==
            IF k = 0 THEN <<0, 0>>
            ELSE <<SumTo[k - 1][1] + pairs[k][1], SumTo[k - 1][2] + pairs[k][2]>>
    IN  <<SumTo[Len(pairs)][1], SumTo[Len(pairs)][2], Len(pairs)>>

\* the square of calculate_distance(center, point), times n^2
calculate_distance(center, point) ==
    (center[1] - center[3] * point[1]) * (center[1] - center[3] * point[1])
      + (center[2] - center[3] * point[2]) * (center[2] - center[3] * point[2])

ParagraphBreak == "\\P"

FormatCode == "\\pxqc;"

\* re.sub(r'\\P', '', s)
StripParagraphBreaks(s) == SelectSeq(s, LAMBDA t : t # ParagraphBreak)

\* re.sub(r'\\pxqc;', '', s)
StripFormatCodes(s) == SelectSeq(s, LAMBDA t : t # FormatCode)

NoTextFound == <<"No text found">>

IsTextEntity(e) == e.EntityName \in {"AcDbText", "AcDbMText"}

\* the loop at lines 78-87 from entity k on; acc.inf is min_distance = inf
RECURSIVE NearestLoop(_, _, _, _, _)
NearestLoop(vertices, center, sel, k, acc) ==
    IF k > Len(sel) THEN acc
    ELSE LET e == sel[k]
             d == calculate_distance(center, e.InsertionPoint)
         IN  IF /\ IsTextEntity(e)
                /\ is_point_in_polygon(e.InsertionPoint, vertices)
                /\ (acc.inf \/ d < acc.min_distance)
             THEN NearestLoop(vertices, center, sel, k + 1,
                     [inf |-> FALSE, min_distance |-> d,
                      nearest_text |-> StripParagraphBreaks(e.TextString),
                      nearest_text_unclean |-> e.TextString])
             ELSE NearestLoop(vertices, center, sel, k + 1, acc)

\* <<cleaned text or sentinel, raw text>>
get_text_inside_polyline(entity, sel) ==
    IF entity.EntityName # "AcDbPolyline" THEN <<<<"None">>, <<"None">>>>
    ELSE LET acc == NearestLoop(entity.Coordinates, get_center(entity.Coordinates),
                        sel, 1,
                        [inf |-> TRUE, min_distance |-> 0,
                         nearest_text |-> NoText, nearest_text_unclean |-> NoText])
         IN  <<IF acc.nearest_text # NoText
               THEN StripFormatCodes(acc.nearest_text) ELSE NoTextFound,
               acc.nearest_text_unclean>>

-----------------------------------------------------------------------------
(* Vertex Resolver *)

\* 'cogopoint' in name.lower(), for the entity names of this model
HasCogopoint(name) == name \in {"AeccDbCogoPoint", "CogoPointProxy"}

get_all_entity_names(sel) == {sel[k].EntityName : k \in 1..Len(sel)}

VertexNotFound == <<"Vertex not found", "None">>

\* the loop at lines 106-112 from entity k on
RECURSIVE VertexLoop(_, _, _, _, _)
VertexLoop(sel, cogopoint_names, vertex, tolerance, k) ==
    IF k > Len(sel) THEN VertexNotFound
    ELSE LET e == sel[k]
         IN  IF /\ e.EntityName \in cogopoint_names
                /\ is_point_close(<<e.Easting, e.Northing>>, vertex, tolerance)
             THEN <<"V" \o e.Number, e.Elevation>>
             ELSE VertexLoop(sel, cogopoint_names, vertex, tolerance, k + 1)

\* <<name, elevation>>
get_vertex_name(sel, vertex, tolerance) ==
    LET cogopoint_names == {name \in get_all_entity_names(sel) : HasCogopoint(name)}
    IN  VertexLoop(sel, cogopoint_names, vertex, tolerance, 1)

\* line 113: what get_vertex_name prints for the vertex, given its result
vertex_message(vertex, result) ==
    IF result = VertexNotFound
    THEN <<[kind |-> "message", vertex |-> vertex]>>
    ELSE <<>>

-----------------------------------------------------------------------------
(* Adjacency Matcher *)

HasVertex(other_vertices, v) ==
    \E k \in 1..Len(other_vertices) :
        /\ are_floats_equal(other_vertices[k][1], v[1])
        /\ are_floats_equal(other_vertices[k][2], v[2])

\* AdjacentLoop without the test of the handle at line 188
RECURSIVE AdjacentLoopWithSelf(_, _, _, _, _)
AdjacentLoopWithSelf(entity, sel, current_vertex, next_vertex, k) ==
    IF k > Len(sel) THEN [status |-> "none", index |-> 0]
    ELSE LET other_info == extract_coordinates(sel[k])
         IN  IF other_info.Type = "raise"
             THEN [status |-> "raise", index |-> k]
             ELSE IF /\ other_info.Type = "Polyline"
                     /\ HasVertex(other_info.Coordinates, current_vertex)
                     /\ HasVertex(other_info.Coordinates, next_vertex)
                  THEN [status |-> "found", index |-> k]
                  ELSE AdjacentLoopWithSelf(entity, sel, current_vertex, next_vertex, k + 1)

\* the loop at lines 187-197 from entity k on: [status, index], status
\* "found" (adjacent_polyline is sel[index]), "none" or "raise"
RECURSIVE AdjacentLoop(_, _, _, _, _)
AdjacentLoop(entity, sel, current_vertex, next_vertex, k) ==
    IF k > Len(sel) THEN [status |-> "none", index |-> 0]
    ELSE IF sel[k].Handle = entity.Handle
         THEN AdjacentLoop(entity, sel, current_vertex, next_vertex, k + 1)
         ELSE LET other_info == extract_coordinates(sel[k])
              IN  IF other_info.Type = "raise"
                  THEN [status |-> "raise", index |-> k]
                  ELSE IF /\ other_info.Type = "Polyline"
                          /\ HasVertex(other_info.Coordinates, current_vertex)
                          /\ HasVertex(other_info.Coordinates, next_vertex)
                       THEN [status |-> "found", index |-> k]
                       ELSE AdjacentLoop(entity, sel, current_vertex, next_vertex, k + 1)

find_adjacent_polyline(entity, sel, current_vertex, next_vertex) ==
    AdjacentLoop(entity, sel, current_vertex, next_vertex, 1)

NoConfrontanteFound == <<"No confrontante found">>

\* lines 199-201
adjacent_text_of(adjacent, sel) ==
    IF adjacent.status = "found"
    THEN get_text_inside_polyline(sel[adjacent.index], sel)[1]
    ELSE NoConfrontanteFound

-----------------------------------------------------------------------------
(* Boundary Narrator: header *)

LoteMarker == "Lote no. "

QuadraMarker == "Quadra "

\* the tokens of this model that \d+ matches, and those \w+ matches
DigitTokens == {"7", "12"}

WordTokens == DigitTokens \cup {"A", "B", "Rua"}

\* the longest run of tokens of S from position k on, concatenated
RECURSIVE RunFrom(_, _, _)
RunFrom(s, k, S) ==
    IF k <= Len(s) /\ s[k] \in S THEN s[k] \o RunFrom(s, k + 1, S) ELSE ""

\* re.search(marker + group, s): the positions where the marker is followed
\* by at least one token of S
MatchPositions(s, marker, S) ==
    {k \in 1..Len(s) : s[k] = marker /\ k < Len(s) /\ s[k + 1] \in S}

\* group(1) of the first match as a one-token text, or the fallback
SearchGroup(s, marker, S, fallback) ==
    LET m == MatchPositions(s, marker, S)
    IN  IF m = {} THEN fallback
        ELSE LET k == CHOOSE j \in m : \A l \in m : j <= l
             IN  <<RunFrom(s, k + 1, S)>>

\* lines 148-149
lot_number_of(text_inside, text_inside_unclean) ==
    SearchGroup(text_inside_unclean, LoteMarker, DigitTokens, text_inside)

\* lines 151-152
quad_number_of(text_inside, text_inside_unclean) ==
    SearchGroup(text_inside_unclean, QuadraMarker, WordTokens, text_inside)

\* the Numeral Converter is a collaborator: an uninterpreted injection
num2words(area) == <<"pt_BR", area>>

\* the slots of the rendered header, in the order of the template text; the
\* template has the literal XX where the block identifier would stand and
\* no quad_number slot
template_header(lot_number, quad_number, area, area_text) ==
    [lot_number |-> lot_number, quadra |-> <<"XX">>,
     area |-> area, area_text |-> area_text]

\* lines 145-156
header_of(entity, text_inside, text_inside_unclean) ==
    LET area == RoundTo10(entity.Area)
    IN  template_header(lot_number_of(text_inside, text_inside_unclean),
                        quad_number_of(text_inside, text_inside_unclean),
                        area, num2words(area))

-----------------------------------------------------------------------------
(* Boundary Narrator: one edge *)

\* math.degrees(math.atan2(dx, dy)) in thousandths of an arc second, rounded
\* down, for the directions of this model (dx, dy reduced by their gcd)
AzimuthTable ==
    <<-196, 173>> :> -174840003 @@ <<-6, -5>> :> -467300056 @@ <<-6, -1>> :> -358064360 @@
    <<-6, 1>> :> -289935641 @@ <<-6, 5>> :> -180699945 @@ <<-5, -6>> :> -504699945 @@
    <<-5, -4>> :> -463175310 @@ <<-5, -3>> :> -435469524 @@ <<-5, -2>> :> -402485075 @@
    <<-5, -1>> :> -364715757 @@ <<-5, 1>> :> -283284244 @@ <<-5, 2>> :> -245514926 @@
    <<-5, 3>> :> -212530477 @@ <<-5, 4>> :> -184824691 @@ <<-5, 6>> :> -143300056 @@
    <<-4, -5>> :> -508824691 @@ <<-4, -3>> :> -456731632 @@ <<-4, -1>> :> -374530477 @@
    <<-4, 1>> :> -273469524 @@ <<-4, 3>> :> -191268369 @@ <<-4, 5>> :> -139175310 @@
    <<-4, 275>> :> -3000004 @@ <<-3, -5>> :> -536530477 @@ <<-3, -4>> :> -515268369 @@
    <<-3, -2>> :> -445284244 @@ <<-3, -1>> :> -390365816 @@ <<-3, 1>> :> -257634185 @@
    <<-3, 2>> :> -202715757 @@ <<-3, 4>> :> -132731632 @@ <<-3, 5>> :> -111469524 @@
    <<-2, -5>> :> -569514926 @@ <<-2, -3>> :> -526715757 @@ <<-2, -1>> :> -419634185 @@
    <<-2, 1>> :> -228365816 @@ <<-2, 3>> :> -121284244 @@ <<-2, 5>> :> -78485075 @@
    <<-1, -6>> :> -613935641 @@ <<-1, -5>> :> -607284244 @@ <<-1, -4>> :> -597469524 @@
    <<-1, -3>> :> -581634185 @@ <<-1, -2>> :> -552365816 @@ <<-1, -1>> :> -486000000 @@
    <<-1, 0>> :> -324000000 @@ <<-1, 1>> :> -162000000 @@ <<-1, 2>> :> -95634185 @@
    <<-1, 3>> :> -66365816 @@ <<-1, 4>> :> -50530477 @@ <<-1, 5>> :> -40715757 @@
    <<-1, 6>> :> -34064360 @@ <<0, -1>> :> 648000000 @@ <<0, 1>> :> 0 @@
    <<1, -6>> :> 613935640 @@ <<1, -5>> :> 607284243 @@ <<1, -4>> :> 597469523 @@
    <<1, -3>> :> 581634184 @@ <<1, -2>> :> 552365815 @@ <<1, -1>> :> 486000000 @@
    <<1, 0>> :> 324000000 @@ <<1, 1>> :> 162000000 @@ <<1, 2>> :> 95634184 @@
    <<1, 3>> :> 66365815 @@ <<1, 4>> :> 50530476 @@ <<1, 5>> :> 40715756 @@
    <<1, 6>> :> 34064359 @@ <<2, -5>> :> 569514925 @@ <<2, -3>> :> 526715756 @@
    <<2, -1>> :> 419634184 @@ <<2, 1>> :> 228365815 @@ <<2, 3>> :> 121284243 @@
    <<2, 5>> :> 78485074 @@ <<3, -5>> :> 536530476 @@ <<3, -4>> :> 515268368 @@
    <<3, -2>> :> 445284243 @@ <<3, -1>> :> 390365815 @@ <<3, 1>> :> 257634184 @@
    <<3, 2>> :> 202715756 @@ <<3, 4>> :> 132731631 @@ <<3, 5>> :> 111469523 @@
    <<4, -275>> :> 644999996 @@ <<4, -5>> :> 508824690 @@ <<4, -3>> :> 456731631 @@
    <<4, -1>> :> 374530476 @@ <<4, 1>> :> 273469523 @@ <<4, 3>> :> 191268368 @@
    <<4, 5>> :> 139175309 @@ <<5, -6>> :> 504699944 @@ <<5, -4>> :> 463175309 @@
    <<5, -3>> :> 435469523 @@ <<5, -2>> :> 402485074 @@ <<5, -1>> :> 364715756 @@
    <<5, 1>> :> 283284243 @@ <<5, 2>> :> 245514925 @@ <<5, 3>> :> 212530476 @@
    <<5, 4>> :> 184824690 @@ <<5, 6>> :> 143300055 @@ <<6, -5>> :> 467300055 @@
    <<6, -1>> :> 358064359 @@ <<6, 1>> :> 289935640 @@ <<6, 5>> :> 180699944 @@
    <<173, 196>> :> 149159997 @@ <<275, 4>> :> 320999996

FullCircle == 1296000000

atan2_degrees(delta_x, delta_y) ==
    LET g == Gcd(Abs(delta_x), Abs(delta_y))
    IN  AzimuthTable[<<delta_x \div g, delta_y \div g>>]

\* lines 175-184 and 203: degrees, minutes, and the seconds as printed with
\* two decimals (in hundredths)
azimuth_dms(current_vertex, next_vertex) ==
    LET delta_x == next_vertex[1] - current_vertex[1]
        delta_y == next_vertex[2] - current_vertex[2]
        raw == atan2_degrees(delta_x, delta_y)
        azimuth_deg == IF raw < 0 THEN raw + FullCircle ELSE raw
        degrees == azimuth_deg \div 3600000
        minutes == (azimuth_deg - degrees * 3600000) \div 60000
        seconds == azimuth_deg - degrees * 3600000 - minutes * 60000
    IN  [degrees |-> degrees, minutes |-> minutes,
         seconds |-> (seconds + 5) \div 10]

\* line 173, in hundredths of a metre
distance_of(current_vertex, next_vertex) ==
    LET dx == next_vertex[1] - current_vertex[1]
        dy == next_vertex[2] - current_vertex[2]
        d2 == dx * dx + dy * dy
    IN  CHOOSE k \in 0..((Abs(dx) + Abs(dy)) \div 100 + 1) :
            /\ (k = 0 \/ (100 * k - 50) * (100 * k - 50) <= d2)
            /\ d2 < (100 * k + 50) * (100 * k + 50)

\* is_zero_length with `or` for `and`
is_zero_length_either(current_vertex, next_vertex) ==
    \/ are_floats_equal(current_vertex[1], next_vertex[1])
    \/ are_floats_equal(current_vertex[2], next_vertex[2])

\* line 170
is_zero_length(current_vertex, next_vertex) ==
    /\ are_floats_equal(current_vertex[1], next_vertex[1])
    /\ are_floats_equal(current_vertex[2], next_vertex[2])

\* line 165
VertexTolerance == 10

\* line 206: which sentence template edge k gets
template_of(k) == IF k = 0 THEN "initial" ELSE "other"

\* the slots template_initial (line 133) renders; template_other (line 134)
\* renders the same without the three current_vertex slots
render_description(template, cur, cur_name, nxt, nxt_name, adjacent_text, dms, distance) ==
    IF template = "initial"
    THEN [template |-> "initial",
          current_vertex_name |-> cur_name[1], current_vertex |-> cur,
          current_vertex_elevation |-> cur_name[2],
          adjacent_text |-> adjacent_text,
          degrees |-> dms.degrees, minutes |-> dms.minutes, seconds |-> dms.seconds,
          distance |-> distance,
          next_vertex_name |-> nxt_name[1], next_vertex |-> nxt,
          next_vertex_elevation |-> nxt_name[2]]
    ELSE [template |-> "other",
          adjacent_text |-> adjacent_text,
          degrees |-> dms.degrees, minutes |-> dms.minutes, seconds |-> dms.seconds,
          distance |-> distance,
          next_vertex_name |-> nxt_name[1], next_vertex |-> nxt,
          next_vertex_elevation |-> nxt_name[2]]

\* the slots template_table (line 137) renders
render_table_line(cur, cur_name, nxt, nxt_name, dms, distance) ==
    [kind |-> "row",
     current_vertex_name |-> cur_name[1], current_vertex |-> cur,
     current_vertex_elevation |-> cur_name[2],
     next_vertex_name |-> nxt_name[1], next_vertex |-> nxt,
     next_vertex_elevation |-> nxt_name[2],
     distance |-> distance,
     degrees |-> dms.degrees, minutes |-> dms.minutes, seconds |-> dms.seconds]

-----------------------------------------------------------------------------
(* The entities selections are drawn from *)

\* a square lot; edge 0 runs from (0, 0) north to (0, 0.1)
LotP == Polyline("P", <<0, 0, 0, 1000, 1000, 1000, 1000, 0>>, 13)

\* a lot west of P holding both ends of P's edge 0, in the other order, not
\* as one of its own edges, and drawn a fraction of a millimetre off
LotQ == Polyline("Q", <<3, 1002, -200, 500, -2, 1, -1000, 500>>, 37)

\* a lot that touches P and Q in the corner (0, 0) only
LotR == Polyline("R", <<0, 0, -1000, -1000, 0, -1000>>, 52)

\* a lot whose first vertex was drawn twice: edge 0 has zero length
LotD == Polyline("D", <<1000, 0, 1002, -3, 2000, 0, 2000, 1000>>, 48)

\* a polyline whose coordinates cannot be read
LotB == Entity("AcDbPolyline", "B", <<>>, 0, 0, 0, "", "", <<0, 0>>, NoText,
               {"Coordinates"})

PointK1 == CogoPoint("K1", 0, 0, "812.5", "1", {})

\* half a millimetre from the corner (0, 0)
PointK2 == CogoPoint("K2", 4, 3, "813.0", "2", {})

LabelT1 == Text("T1", "AcDbText", <<500, 500>>,
                <<LoteMarker, "12", ParagraphBreak, QuadraMarker, "A">>)

LabelT2 == Text("T2", "AcDbMText", <<-500, 500>>, <<FormatCode, "Rua">>)

\* an entity of no supported kind
LineL == Entity("AcDbLine", "L", <<>>, 0, 0, 0, "", "", <<0, 0>>, NoText, {})

\* an entity of no supported kind whose type name holds "CogoPoint" and
\* which has a position and a number
ProxyX == Entity("CogoPointProxy", "X", <<>>, 0, 0, 0, "0.0", "99", <<0, 0>>,
                 NoText, {})

Universe ==
    {LotP, LotQ, LotR, LotD, LotB, PointK1, PointK2, LabelT1, LabelT2, LineL, ProxyX}

MaxSel == 3

\* the selections: up to MaxSel distinct entities in any order
Selections ==
    UNION {{s \in [1..n -> Universe] : \A a, b \in 1..n : a # b => s[a] # s[b]}
           : n \in 0..MaxSel}

-----------------------------------------------------------------------------
(* The script: lines 225-228 and generate_text_from_polyline *)

NoHeader == [lot_number |-> NoText, quadra |-> NoText, area |-> 0, area_text |-> <<"", 0>>]

NoCall == [fn |-> "none"]

Init ==
    /\ selection_set \in Selections
    /\ pc = "main"
    /\ ent = 1
    /\ i = 0
    /\ header_text = NoHeader
    /\ descriptions = <<>>
    /\ out = <<>>
    /\ arg = NoCall
    /\ res = NoCall

entity == selection_set[ent]

\* entity_info['Coordinates'] of the polyline being narrated
vertices == extract_coordinates(entity).Coordinates

current_vertex == vertices[i + 1]

next_vertex == vertices[((i + 1) % Len(vertices)) + 1]

\* lines 167-168: the two vertices of the edge are resolved, and each miss is
\* reported on the output
current_vertex_name == get_vertex_name(selection_set, current_vertex, VertexTolerance)

next_vertex_name == get_vertex_name(selection_set, next_vertex, VertexTolerance)

resolver_messages ==
    vertex_message(current_vertex, current_vertex_name)
      \o vertex_message(next_vertex, next_vertex_name)

\* line 225-226: an entity that is no polyline is passed over
SkipEntity ==
    /\ pc = "main"
    /\ ent <= Len(selection_set)
    /\ entity.EntityName # "AcDbPolyline"
    /\ ent' = ent + 1
    /\ UNCHANGED <<selection_set, pc, i, header_text, descriptions, out, arg, res>>

\* lines 227 and 140: the polyline's coordinates cannot be read
AbortAtPolyline ==
    /\ pc = "main"
    /\ ent <= Len(selection_set)
    /\ entity.EntityName = "AcDbPolyline"
    /\ "Coordinates" \in entity.Unreadable
    /\ pc' = "aborted"
    /\ UNCHANGED <<selection_set, ent, i, header_text, descriptions, out, arg, res>>

\* lines 227-228 and 140-158
StartPolyline ==
    /\ pc = "main"
    /\ ent <= Len(selection_set)
    /\ entity.EntityName = "AcDbPolyline"
    /\ "Coordinates" \notin entity.Unreadable
    /\ extract_coordinates(entity).Type = "Polyline"
    /\ LET text == get_text_inside_polyline(entity, selection_set)
       IN  header_text' = header_of(entity, text[1], text[2])
    /\ descriptions' = <<>>
    /\ i' = 0
    /\ pc' = "edges"
    /\ UNCHANGED <<selection_set, ent, out, arg, res>>

\* lines 161-171: a zero-length edge is passed over
SkipZeroLengthEdge ==
    /\ pc = "edges"
    /\ i < Len(vertices)
    /\ is_zero_length(current_vertex, next_vertex)
    /\ out' = out \o resolver_messages
    /\ i' = i + 1
    /\ UNCHANGED <<selection_set, pc, ent, header_text, descriptions, arg, res>>

\* lines 186-190: the search for the neighbour reaches an entity whose data
\* cannot be read
AbortInEdge ==
    /\ pc = "edges"
    /\ i < Len(vertices)
    /\ ~is_zero_length(current_vertex, next_vertex)
    /\ find_adjacent_polyline(entity, selection_set, current_vertex, next_vertex).status
         = "raise"
    /\ out' = out \o resolver_messages
    /\ pc' = "aborted"
    /\ UNCHANGED <<selection_set, ent, i, header_text, descriptions, arg, res>>

\* lines 161-215: one sentence and one table row
NarrateEdge ==
    /\ pc = "edges"
    /\ i < Len(vertices)
    /\ ~is_zero_length(current_vertex, next_vertex)
    /\ LET adjacent == find_adjacent_polyline(entity, selection_set,
                                              current_vertex, next_vertex)
           cur_name == current_vertex_name
           nxt_name == next_vertex_name
           distance == distance_of(current_vertex, next_vertex)
           dms == azimuth_dms(current_vertex, next_vertex)
       IN  /\ adjacent.status # "raise"
           /\ descriptions' = Append(descriptions,
                 render_description(template_of(i), current_vertex, cur_name,
                     next_vertex, nxt_name,
                     adjacent_text_of(adjacent, selection_set), dms, distance))
           /\ out' = Append(out \o resolver_messages,
                 render_table_line(current_vertex, cur_name, next_vertex, nxt_name,
                                   dms, distance))
    /\ i' = i + 1
    /\ UNCHANGED <<selection_set, pc, ent, header_text, arg, res>>

\* lines 218-222: the document of the polyline is printed
FinishPolyline ==
    /\ pc = "edges"
    /\ i = Len(vertices)
    /\ out' = Append(out, [kind |-> "doc", header_text |-> header_text,
                           descriptions |-> descriptions,
                           final_text |-> "template_final"])
    /\ pc' = "main"
    /\ ent' = ent + 1
    /\ i' = 0
    /\ header_text' = NoHeader
    /\ descriptions' = <<>>
    /\ UNCHANGED <<selection_set, arg, res>>

\* the loop at line 225 ends
Finish ==
    /\ pc = "main"
    /\ ent > Len(selection_set)
    /\ pc' = "done"
    /\ UNCHANGED <<selection_set, ent, i, header_text, descriptions, out, arg, res>>

Next ==
    \/ SkipEntity
    \/ AbortAtPolyline
    \/ StartPolyline
    \/ SkipZeroLengthEdge
    \/ AbortInEdge
    \/ NarrateEdge
    \/ FinishPolyline
    \/ Finish

Spec == Init /\ [][Next]_vars

-----------------------------------------------------------------------------
(* The functions on their own: the input is drawn in the initial state and *)
(* one action applies the function                                         *)

Idle ==
    /\ selection_set = <<>>
    /\ pc = "call"
    /\ ent = 1
    /\ i = 0
    /\ header_text = NoHeader
    /\ descriptions = <<>>
    /\ out = <<>>

Return(result) ==
    /\ pc = "call"
    /\ res' = result
    /\ pc' = "returned"
    /\ UNCHANGED <<selection_set, ent, i, header_text, descriptions, out, arg>>

\* sequences of up to n distinct elements of S
DistinctSeqs(S, n) ==
    UNION {{s \in [1..m -> S] : \A a, b \in 1..m : a # b => s[a] # s[b]}
           : m \in 0..n}

(* Vertex Resolver: positions around (10.0000, 20.0000) *)

ResolverEntities ==
    {CogoPoint("S1", 100000, 200000, "5.0", "V1", {}),
     CogoPoint("S2", 100000, 200000, "6.0", "1", {}),
     CogoPoint("S3", 100003, 200003, "7.0", "2", {}),
     CogoPoint("S4", 100009, 200011, "8.0", "3", {}),
     Entity("CogoPointProxy", "S5", <<>>, 0, 100001, 200001, "9.0", "4", <<0, 0>>,
            NoText, {}),
     Text("S6", "AcDbText", <<100003, 200003>>, <<"A">>)}

ResolverVertices == {<<100003, 200003>>, <<100000, 200000>>}

\* 0.0001 m and 0.001 m
ResolverTolerances == {1, 10}

MaxPoints == 2

InitResolver ==
    /\ Idle
    /\ arg \in [fn : {"get_vertex_name"},
                sel : DistinctSeqs(ResolverEntities, MaxPoints),
                vertex : ResolverVertices,
                tolerance : ResolverTolerances]
    /\ res = NoCall

CallGetVertexName ==
    /\ arg.fn = "get_vertex_name"
    /\ Return(get_vertex_name(arg.sel, arg.vertex, arg.tolerance))

NextResolver == CallGetVertexName

SpecResolver == InitResolver /\ [][NextResolver]_vars

(* Label Associator: labels in and around the lots P and Q *)

LabelPositions == {<<500, 500>>, <<400, 500>>, <<600, 500>>, <<1500, 500>>, <<-500, 500>>}

LabelTexts == {<<"A">>, <<ParagraphBreak>>, <<FormatCode, "Rua">>}

LabelEntities ==
    {Text("T", IF Len(t) = 1 THEN "AcDbText" ELSE "AcDbMText", p, t) :
        p \in LabelPositions, t \in LabelTexts}

MaxLabels == 2

InitLabel ==
    /\ Idle
    /\ arg \in [fn : {"get_text_inside_polyline"},
                entity : {LotP, LotQ},
                sel : DistinctSeqs(LabelEntities, MaxLabels)]
    /\ res = NoCall

CallGetTextInsidePolyline ==
    /\ arg.fn = "get_text_inside_polyline"
    /\ Return(get_text_inside_polyline(arg.entity, arg.sel))

NextLabel == CallGetTextInsidePolyline

SpecLabel == InitLabel /\ [][NextLabel]_vars

(* Point-in-Polygon Tester: rings on a grid of 10 m, points on one of 5 m *)

RingCoords == {0, 10, 20}

PointCoords == {0, 5, 10, 15, 20}

MaxRing == 4

\* rings of pairwise distinct vertices, as flat coordinate lists
Rings ==
    UNION {{[k \in 1..(2 * n) |-> r[(k + 1) \div 2][2 - (k % 2)]] :
              r \in {s \in [1..n -> RingCoords \X RingCoords] :
                        \A a, b \in 1..n : a # b => s[a] # s[b]}}
           : n \in 3..MaxRing}

InitPip ==
    /\ Idle
    /\ arg \in [fn : {"is_point_in_polygon"},
                polygon : Rings,
                point : PointCoords \X PointCoords]
    /\ res = NoCall

CallIsPointInPolygon ==
    /\ arg.fn = "is_point_in_polygon"
    /\ Return(is_point_in_polygon(arg.point, arg.polygon))

NextPip == CallIsPointInPolygon

SpecPip == InitPip /\ [][NextPip]_vars

(* Azimuth: edges from the origin in every direction of the table, 1 mm to *)
(* the unit and ten times that                                             *)

EdgeScales == {10, 100}

InitAzimuth ==
    /\ Idle
    /\ arg \in [fn : {"azimuth_dms"},
                current_vertex : {<<0, 0>>},
                next_vertex : {<<d[1] * s, d[2] * s>> :
                                  d \in DOMAIN AzimuthTable, s \in EdgeScales}]
    /\ res = NoCall

CallAzimuth ==
    /\ arg.fn = "azimuth_dms"
    /\ Return(azimuth_dms(arg.current_vertex, arg.next_vertex))

NextAzimuth == CallAzimuth

SpecAzimuth == InitAzimuth /\ [][NextAzimuth]_vars

-----------------------------------------------------------------------------
(* Properties *)

Range(s) == {s[k] : k \in 1..Len(s)}

\* the vertices of a polyline as the narrator stores them
StoredVertices(e) ==
    [k \in 1..(Len(e.Coordinates) \div 2) |->
        <<RoundTo10(e.Coordinates[2 * k - 1]), RoundTo10(e.Coordinates[2 * k])>>]

EdgeStart(vs, k) == vs[k + 1]

EdgeEnd(vs, k) == vs[((k + 1) % Len(vs)) + 1]

Degenerate(vs, k) == EdgeStart(vs, k) = EdgeEnd(vs, k)

\* the edges k < upto that are not zero-length, in edge order
RECURSIVE NonDegenerateEdges(_, _)
NonDegenerateEdges(vs, upto) ==
    IF upto = 0 THEN <<>>
    ELSE IF Degenerate(vs, upto - 1)
         THEN NonDegenerateEdges(vs, upto - 1)
         ELSE Append(NonDegenerateEdges(vs, upto - 1), upto - 1)

\* some polyline of sel other than p holds both a and b among its vertices
SharesBothEndpoints(p, sel, a, b) ==
    \E k \in 1..Len(sel) :
        /\ sel[k].Handle # p.Handle
        /\ sel[k].EntityName = "AcDbPolyline"
        /\ a \in Range(StoredVertices(sel[k]))
        /\ b \in Range(StoredVertices(sel[k]))

\* C1: for every edge of every polyline of the selection, the search for the
\* neighbour (when no entity's data fails to be read) finds one if and only
\* if a polyline with another handle holds both endpoints of the edge among
\* its vertices, whatever their order and position there, and the one found
\* is such a polyline; and every sentence printed names a neighbour's label
\* under the same condition and "No confrontante found" otherwise.
C1_AdjacencyMatcher ==
    /\ (pc = "main" /\ ent = 1) =>
         \A k \in 1..Len(selection_set) :
            LET p == selection_set[k]
                vs == StoredVertices(p)
            IN  (p.EntityName = "AcDbPolyline" /\ p.Unreadable = {}) =>
                  \A e \in 0..(Len(vs) - 1) :
                     LET r == find_adjacent_polyline(p, selection_set,
                                  EdgeStart(vs, e), EdgeEnd(vs, e))
                     IN  r.status # "raise" =>
                           /\ (r.status = "found") <=>
                                SharesBothEndpoints(p, selection_set,
                                    EdgeStart(vs, e), EdgeEnd(vs, e))
                           /\ r.status = "found" =>
                                /\ r.index # k
                                /\ selection_set[r.index].Handle # p.Handle
                                /\ EdgeStart(vs, e) \in
                                     Range(StoredVertices(selection_set[r.index]))
                                /\ EdgeEnd(vs, e) \in
                                     Range(StoredVertices(selection_set[r.index]))
    /\ pc = "edges" =>
         LET vs == StoredVertices(entity)
             nd == NonDegenerateEdges(vs, i)
         IN  \A j \in 1..Len(descriptions) :
                j <= Len(nd) =>
                  ((descriptions[j].adjacent_text # NoConfrontanteFound) <=>
                     SharesBothEndpoints(entity, selection_set,
                         EdgeStart(vs, nd[j]), EdgeEnd(vs, nd[j])))

\* P narrated next to Q, which holds both ends of P's edge 0 in the other
\* order, and R, which holds one end of P's edge 3
C1_Witness ==
    /\ pc = "edges"
    /\ entity = LotP
    /\ i = 4
    /\ Len(descriptions) = 4
    /\ LotQ \in Range(selection_set)
    /\ LotR \in Range(selection_set)
    /\ descriptions[1].adjacent_text # NoConfrontanteFound
    /\ descriptions[4].adjacent_text = NoConfrontanteFound

\* C5: when the run is aborted by an entity whose data cannot be read,
\* no table row and no document has been printed.
C5_AllOrNothing ==
    pc = "aborted" => \A k \in 1..Len(out) : out[k].kind \notin {"row", "doc"}

SupportedNames == {"AcDbPolyline", "AeccDbCogoPoint", "AcDbText", "AcDbMText"}

WithoutUnsupported(sel) == SelectSeq(sel, LAMBDA e : e.EntityName \in SupportedNames)

\* C6: the entities of no supported kind change nothing: every vertex name
\* and elevation in a printed table row is the one resolved in the selection
\* without them.
C6_UnsupportedExcluded ==
    \A k \in 1..Len(out) :
        out[k].kind = "row" =>
          /\ <<out[k].current_vertex_name, out[k].current_vertex_elevation>> =
               get_vertex_name(WithoutUnsupported(selection_set),
                               out[k].current_vertex, VertexTolerance)
          /\ <<out[k].next_vertex_name, out[k].next_vertex_elevation>> =
               get_vertex_name(WithoutUnsupported(selection_set),
                               out[k].next_vertex, VertexTolerance)

\* the table rows printed since the last document
RowsSinceLastDocument ==
    LET docs == {k \in 1..Len(out) : out[k].kind = "doc"}
        last == IF docs = {} THEN 0 ELSE CHOOSE k \in docs : \A l \in docs : l <= k
    IN  SelectSeq(SubSeq(out, last + 1, Len(out)), LAMBDA item : item.kind = "row")

\* C7: while a polyline is narrated, after its first i edges the sentences
\* and the table rows printed for it are exactly those of its non-degenerate
\* edges among them, one each, in edge order; after all n edges, of which k
\* have equal endpoints, there are n - k sentences and n - k rows.
C7_ZeroLengthEdgesSkipped ==
    pc = "edges" =>
      LET vs == StoredVertices(entity)
          nd == NonDegenerateEdges(vs, i)
          rows == RowsSinceLastDocument
          k == Cardinality({e \in 0..(Len(vs) - 1) : Degenerate(vs, e)})
      IN  /\ Len(descriptions) = Len(nd)
          /\ Len(rows) = Len(nd)
          /\ \A j \in 1..Len(nd) :
                /\ rows[j].current_vertex = EdgeStart(vs, nd[j])
                /\ rows[j].next_vertex = EdgeEnd(vs, nd[j])
                /\ descriptions[j].next_vertex = EdgeEnd(vs, nd[j])
          /\ i = Len(vs) =>
                /\ Len(descriptions) = Len(vs) - k
                /\ Len(rows) = Len(vs) - k

\* the narration of D, whose edge 0 has zero length, is complete: 4 vertices,
\* 3 sentences
C7_Witness ==
    /\ pc = "edges"
    /\ entity = LotD
    /\ i = 4
    /\ Degenerate(StoredVertices(LotD), 0)
    /\ Len(descriptions) = 3
    /\ Len(RowsSinceLastDocument) = 3

\* C8: in every document with at least one sentence the first sentence is
\* rendered with the opening template and every later one with the
\* continuation template.
C8_OpeningSentence ==
    \A k \in 1..Len(out) :
        out[k].kind = "doc" =>
          \A j \in 1..Len(out[k].descriptions) :
              out[k].descriptions[j].template = (IF j = 1 THEN "initial" ELSE "other")

\* C9: the header of the polyline being narrated carries the lot number and
\* the quadra identifier found in its label (or the cleaned label where the
\* pattern does not match), the area and the area phrase.
C9_HeaderBinding ==
    pc = "edges" =>
      LET text == get_text_inside_polyline(entity, selection_set)
          area == RoundTo10(entity.Area)
      IN  /\ header_text.lot_number = lot_number_of(text[1], text[2])
          /\ header_text.quadra = quad_number_of(text[1], text[2])
          /\ header_text.area = area
          /\ header_text.area_text = num2words(area)

(* Vertex Resolver *)

\* the entities of the call that pass for survey points and lie closer than
\* the tolerance to the vertex
MatchingPoints ==
    {k \in 1..Len(arg.sel) :
        /\ HasCogopoint(arg.sel[k].EntityName)
        /\ (arg.sel[k].Easting - arg.vertex[1]) * (arg.sel[k].Easting - arg.vertex[1])
             + (arg.sel[k].Northing - arg.vertex[2]) * (arg.sel[k].Northing - arg.vertex[2])
             < arg.tolerance * arg.tolerance}

FirstMatchingPoint == arg.sel[CHOOSE k \in MatchingPoints : \A l \in MatchingPoints : k <= l]

\* C2, as amended: the result is "V" followed by the number, and the
\* elevation, of the first entity in order that passes for a survey point
\* and lies strictly closer than the tolerance, whether or not another is
\* closer; it is ("Vertex not found", None) exactly when there is none.
C2_FirstMatchWithPrefix ==
    (pc = "returned" /\ arg.fn = "get_vertex_name") =>
      /\ MatchingPoints = {} => res = VertexNotFound
      /\ MatchingPoints # {} =>
           /\ res = <<"V" \o FirstMatchingPoint.Number, FirstMatchingPoint.Elevation>>
           /\ res # VertexNotFound
      /\ (/\ Len(arg.sel) = 1
          /\ arg.sel[1].Handle = "S2"
          /\ arg.vertex = <<100003, 200003>>) =>
           res = (IF arg.tolerance = 10 THEN <<"V1", "6.0">> ELSE VertexNotFound)

\* the point numbered "1" at (10.0000, 20.0000) comes before the one at the
\* vertex (10.0003, 20.0003) itself and wins with tolerance 0.001
C2_Witness ==
    /\ pc = "returned"
    /\ arg.fn = "get_vertex_name"
    /\ Len(arg.sel) = 2
    /\ arg.sel[1].Handle = "S2"
    /\ arg.sel[2].Handle = "S3"
    /\ arg.vertex = <<100003, 200003>>
    /\ arg.tolerance = 10
    /\ res = <<"V1", "6.0">>

\* C2: the result is the name (the number, as in: numbered "V1" resolves to
\* "V1") and the elevation of the first survey point closer than the
\* tolerance, and the sentinel exactly when there is none.
C2_FirstMatch ==
    (pc = "returned" /\ arg.fn = "get_vertex_name") =>
      /\ MatchingPoints = {} => res = VertexNotFound
      /\ MatchingPoints # {} =>
           res = <<FirstMatchingPoint.Number, FirstMatchingPoint.Elevation>>

(* Label Associator *)

EnclosedLabels ==
    {k \in 1..Len(arg.sel) :
        /\ IsTextEntity(arg.sel[k])
        /\ is_point_in_polygon(arg.sel[k].InsertionPoint, arg.entity.Coordinates)}

\* the square of the distance of label k to the mean of the vertices,
\* times the square of the number of vertices
CentroidDistance(k) ==
    LET vs == Pairs(arg.entity.Coordinates)
        n == Len(vs)
        sx == LET S[m \in 0..n] == IF m = 0 THEN 0 ELSE S[m - 1] + vs[m][1] IN S[n]
        sy == LET S[m \in 0..n] == IF m = 0 THEN 0 ELSE S[m - 1] + vs[m][2] IN S[n]
        p == arg.sel[k].InsertionPoint
    IN  (n * p[1] - sx) * (n * p[1] - sx) + (n * p[2] - sy) * (n * p[2] - sy)

CleanedText(t) == SelectSeq(t, LAMBDA tok : tok # ParagraphBreak /\ tok # FormatCode)

\* C3: when some label lies inside the ring, the result is the cleaned text
\* and the raw text of an enclosed label that is nearest to the mean of the
\* vertices among the enclosed ones; with no label inside it is "No text
\* found".
C3_NearestEnclosedLabel ==
    (pc = "returned" /\ arg.fn = "get_text_inside_polyline") =>
      /\ EnclosedLabels = {} => res[1] = NoTextFound
      /\ EnclosedLabels # {} =>
           \E k \in EnclosedLabels :
              /\ \A l \in EnclosedLabels : CentroidDistance(k) <= CentroidDistance(l)
              /\ res = <<CleanedText(arg.sel[k].TextString), arg.sel[k].TextString>>

\* what holds: the same, except that a nearest label whose text is empty
\* once the paragraph breaks are removed yields "No text found"
C3_NearestEnclosedNonEmptyLabel ==
    (pc = "returned" /\ arg.fn = "get_text_inside_polyline") =>
      /\ EnclosedLabels = {} => res = <<NoTextFound, NoText>>
      /\ EnclosedLabels # {} =>
           \E k \in EnclosedLabels :
              /\ \A l \in EnclosedLabels : CentroidDistance(k) <= CentroidDistance(l)
              /\ res[2] = arg.sel[k].TextString
              /\ res[1] = (IF StripParagraphBreaks(arg.sel[k].TextString) = NoText
                           THEN NoTextFound
                           ELSE CleanedText(arg.sel[k].TextString))

(* Point-in-Polygon Tester *)

\* the point lies on the segment a-b
OnSegment(pt, a, b) ==
    /\ (b[1] - a[1]) * (pt[2] - a[2]) = (b[2] - a[2]) * (pt[1] - a[1])
    /\ Min(a[1], b[1]) <= pt[1] /\ pt[1] <= Max(a[1], b[1])
    /\ Min(a[2], b[2]) <= pt[2] /\ pt[2] <= Max(a[2], b[2])

OnBoundary(pt, ring) ==
    \E k \in 1..Len(ring) : OnSegment(pt, ring[k], ring[(k % Len(ring)) + 1])

\* the ray from pt to the right, lifted by less than any difference of
\* coordinates so that it meets no vertex, crosses the segment a-b
RayCrosses(pt, a, b) ==
    /\ (a[2] > pt[2]) # (b[2] > pt[2])
    /\ IF b[2] > a[2]
       THEN (pt[1] - a[1]) * (b[2] - a[2]) < (pt[2] - a[2]) * (b[1] - a[1])
       ELSE (pt[1] - a[1]) * (b[2] - a[2]) > (pt[2] - a[2]) * (b[1] - a[1])

EvenOdd(pt, ring) ==
    Cardinality({k \in 1..Len(ring) :
                    RayCrosses(pt, ring[k], ring[(k % Len(ring)) + 1])}) % 2 = 1

Square == <<0, 0, 10, 0, 10, 10, 0, 10>>

\* C4: for a ring of at least 3 distinct vertices and a point off its
\* boundary the result is the parity of the number of edges, the closing
\* edge included, that the ray to the right crosses; strictly inside the
\* square (0,0),(10,0),(10,10),(0,10) it is true, strictly outside false.
C4_EvenOddRule ==
    (pc = "returned" /\ arg.fn = "is_point_in_polygon") =>
      /\ ~OnBoundary(arg.point, Pairs(arg.polygon)) =>
           (res <=> EvenOdd(arg.point, Pairs(arg.polygon)))
      /\ arg.polygon = Square =>
           /\ (/\ 0 < arg.point[1] /\ arg.point[1] < 10
               /\ 0 < arg.point[2] /\ arg.point[2] < 10) => res = TRUE
           /\ (\/ arg.point[1] < 0 \/ arg.point[1] > 10
               \/ arg.point[2] < 0 \/ arg.point[2] > 10) => res = FALSE

\* (5, 5) in the square
C4_Witness ==
    /\ pc = "returned"
    /\ arg.fn = "is_point_in_polygon"
    /\ arg.polygon = Square
    /\ arg.point = <<5, 5>>
    /\ res = TRUE

(* Azimuth *)

\* C10: the degrees, minutes and seconds of a narrated edge are within
\* 0..359, 0..59 and 0.00..59.99; due north is 0 0 0.00 and due east
\* 90 0 0.00.
C10_WellFormedAzimuth ==
    (pc = "returned" /\ arg.fn = "azimuth_dms") =>
      LET dx == arg.next_vertex[1] - arg.current_vertex[1]
          dy == arg.next_vertex[2] - arg.current_vertex[2]
      IN  /\ 0 <= res.degrees /\ res.degrees <= 359
          /\ 0 <= res.minutes /\ res.minutes <= 59
          /\ 0 <= res.seconds /\ res.seconds < 6000
          /\ (dx = 0 /\ dy > 0) =>
               res = [degrees |-> 0, minutes |-> 0, seconds |-> 0]
          /\ (dx > 0 /\ dy = 0) =>
               res = [degrees |-> 90, minutes |-> 0, seconds |-> 0]

====
